---- MODULE Spec2Model ----
(***************************************************************************)
(* Request pipeline of the AI doctor assistant: gradio_app.process_inputs  *)
(* with the adapters and lookups it calls (brain_of_the_doctor,            *)
(* voice_of_the_patient, voice_of_the_doctor).                             *)
(*                                                                         *)
(* Python str values are tuples of one-character strings, so that          *)
(* lower(), strip(), `in' and `+' are computed on characters.  None is a   *)
(* value of its own.                                                       *)
(***************************************************************************)
EXTENDS Integers, Sequences, FiniteSets, TLC

VARIABLES
    conversation_memory,  \* gradio_app.conversation_memory
    request,              \* arguments and environment of the last process_inputs call
    outcome,              \* how that call ended: a returned triple or a raised error
    trace,                \* what that call did, in order
    call,                 \* last direct call of a library function (function specification)
    result                \* value of that direct call

vars == <<conversation_memory, request, outcome, trace, call, result>>

----------------------------------------------------------------------------
(* Bounds *)

\* process_inputs is not started once the memory holds more turns than this
MaxTurns == 4
\* number of fragments a lookup text is built from
MaxParts == 2

----------------------------------------------------------------------------
(* Python values *)

None == <<"None">>
Unbound == <<"<unbound local>">>

\* truth value of a str-or-None in `if x', `not x', `x if x else y'
Truthy(v) == v /= None /\ v /= << >>

\* "{v}" inside an f-string
Format(v) == IF v = None THEN <<"N","o","n","e">> ELSE v

UpperChars == <<"A","B","C","D","E","F","G","H","I","J","K","L","M","N","O","P","Q","R","S","T","U","V","W","X","Y","Z">>
LowerChars == <<"a","b","c","d","e","f","g","h","i","j","k","l","m","n","o","p","q","r","s","t","u","v","w","x","y","z">>

UpperSet == {UpperChars[i] : i \in 1..Len(UpperChars)}

LowerMap == [c \in UpperSet |-> LowerChars[CHOOSE i \in 1..Len(UpperChars) : UpperChars[i] = c]]

LowerChar(c) == IF c \in UpperSet THEN LowerMap[c] ELSE c

\* str.lower()
lower(s) == [i \in 1..Len(s) |-> LowerChar(s[i])]

IsSpace(c) == c \in {" ", "\t", "\n", "\r"}

RECURSIVE lstrip(_)
lstrip(s) == IF s /= << >> /\ IsSpace(Head(s)) THEN lstrip(Tail(s)) ELSE s

RECURSIVE rstrip(_)
rstrip(s) ==
    IF s /= << >> /\ IsSpace(s[Len(s)]) THEN rstrip(SubSeq(s, 1, Len(s) - 1)) ELSE s

\* str.strip()
strip(s) == rstrip(lstrip(s))

\* needle in hay
Contains(needle, hay) ==
    \E i \in 0..(Len(hay) - Len(needle)) : SubSeq(hay, i + 1, i + Len(needle)) = needle

IsPrefix(s, t) == Len(s) <= Len(t) /\ SubSeq(t, 1, Len(s)) = s

----------------------------------------------------------------------------
(* brain_of_the_doctor: encoder *)

Base64Alphabet == <<"A","B","C","D","E","F","G","H","I","J","K","L","M","N","O","P","Q","R","S","T","U","V","W","X","Y","Z","a","b","c","d","e","f","g","h","i","j","k","l","m","n","o","p","q","r","s","t","u","v","w","x","y","z","0","1","2","3","4","5","6","7","8","9","+","/">>

B64(n) == Base64Alphabet[n + 1]

\* base64.b64encode(bytes).decode("utf-8")
RECURSIVE b64encode(_)
b64encode(b) ==
    IF Len(b) = 0 THEN << >>
    ELSE IF Len(b) = 1
    THEN <<B64(b[1] \div 4), B64((b[1] % 4) * 16), "=", "=">>
    ELSE IF Len(b) = 2
    THEN <<B64(b[1] \div 4), B64((b[1] % 4) * 16 + b[2] \div 16), B64((b[2] % 16) * 4), "=">>
    ELSE <<B64(b[1] \div 4), B64((b[1] % 4) * 16 + b[2] \div 16),
           B64((b[2] % 16) * 4 + b[3] \div 64), B64(b[3] % 64)>>
         \o b64encode(SubSeq(b, 4, Len(b)))

\* A raised exception and a returned value, as the result of a call
Raised(exc) == [kind |-> "raise", exc |-> exc, value |-> None]
Returned(v) == [kind |-> "return", exc |-> "", value |-> v]

\* encode_image(image_path): fs maps the paths that exist to their bytes
encode_image(image_path, fs) ==
    IF image_path \notin DOMAIN fs
    THEN Raised("FileNotFoundError")
    ELSE Returned(b64encode(fs[image_path]))

----------------------------------------------------------------------------
(* brain_of_the_doctor: knowledge lookup *)

\* dict literal of symptom_checker, in insertion order
symptom_mapping == <<
    <<<<"h","e","a","d","a","c","h","e">>, <<"D","o"," ","y","o","u"," ","h","a","v","e"," ","a","n","y"," ","o","t","h","e","r"," ","s","y","m","p","t","o","m","s"," ","l","i","k","e"," ","f","e","v","e","r"," ","o","r"," ","n","a","u","s","e","a","?">>>>,
    <<<<"f","e","v","e","r">>, <<"H","o","w"," ","l","o","n","g"," ","h","a","v","e"," ","y","o","u"," ","h","a","d"," ","t","h","e"," ","f","e","v","e","r","?"," ","I","s"," ","i","t"," ","a","c","c","o","m","p","a","n","i","e","d"," ","b","y"," ","c","h","i","l","l","s"," ","o","r"," ","s","w","e","a","t","i","n","g","?">>>>,
    <<<<"c","o","u","g","h">>, <<"I","s"," ","y","o","u","r"," ","c","o","u","g","h"," ","d","r","y"," ","o","r"," ","p","r","o","d","u","c","t","i","v","e","?"," ","D","o"," ","y","o","u"," ","h","a","v","e"," ","s","h","o","r","t","n","e","s","s"," ","o","f"," ","b","r","e","a","t","h","?">>>>,
    <<<<"c","h","e","s","t"," ","p","a","i","n">>, <<"I","s"," ","t","h","e"," ","p","a","i","n"," ","s","h","a","r","p"," ","o","r"," ","d","u","l","l","?"," ","D","o","e","s"," ","i","t"," ","r","a","d","i","a","t","e"," ","t","o"," ","y","o","u","r"," ","a","r","m"," ","o","r"," ","j","a","w","?">>>>,
    <<<<"f","a","t","i","g","u","e">>, <<"H","a","v","e"," ","y","o","u"," ","b","e","e","n"," ","e","x","p","e","r","i","e","n","c","i","n","g"," ","f","a","t","i","g","u","e"," ","f","o","r"," ","a"," ","l","o","n","g"," ","t","i","m","e","?"," ","D","o"," ","y","o","u"," ","h","a","v","e"," ","t","r","o","u","b","l","e"," ","s","l","e","e","p","i","n","g","?">>>>,
    <<<<"a","b","d","o","m","i","n","a","l"," ","p","a","i","n">>, <<"W","h","e","r","e"," ","e","x","a","c","t","l","y"," ","i","s"," ","t","h","e"," ","p","a","i","n"," ","l","o","c","a","t","e","d","?"," ","I","s"," ","i","t"," ","s","h","a","r","p"," ","o","r"," ","c","r","a","m","p","i","n","g","?">>>> >>

GenericFollowUp == <<"C","a","n"," ","y","o","u"," ","d","e","s","c","r","i","b","e"," ","y","o","u","r"," ","s","y","m","p","t","o","m","s"," ","i","n"," ","m","o","r","e"," ","d","e","t","a","i","l","?">>

\* f"I see you mentioned {symptom}. {question}"
MentionMessage(symptom, question) ==
    <<"I"," ","s","e","e"," ","y","o","u"," ","m","e","n","t","i","o","n","e","d"," ">> \o symptom \o <<"."," ">> \o question

\* the for loop of symptom_checker from the i-th item on
RECURSIVE symptom_scan(_, _)
symptom_scan(user_input, i) ==
    IF i > Len(symptom_mapping) THEN GenericFollowUp
    ELSE IF Contains(symptom_mapping[i][1], lower(user_input))
    THEN MentionMessage(symptom_mapping[i][1], symptom_mapping[i][2])
    ELSE symptom_scan(user_input, i + 1)

\* the loop with the items taken last to first
RECURSIVE symptom_scan_reversed(_, _)
symptom_scan_reversed(user_input, i) ==
    IF i < 1 THEN GenericFollowUp
    ELSE IF Contains(symptom_mapping[i][1], lower(user_input))
    THEN MentionMessage(symptom_mapping[i][1], symptom_mapping[i][2])
    ELSE symptom_scan_reversed(user_input, i - 1)

symptom_checker_last_match(user_input) ==
    symptom_scan_reversed(user_input, Len(symptom_mapping))

symptom_checker(user_input) == symptom_scan(user_input, 1)

\* dict literal of fetch_medical_knowledge, in insertion order
medical_knowledge == <<
    <<<<"h","e","a","d","a","c","h","e">>, <<"H","e","a","d","a","c","h","e","s"," ","c","a","n"," ","b","e"," ","c","a","u","s","e","d"," ","b","y"," ","s","t","r","e","s","s",","," ","d","e","h","y","d","r","a","t","i","o","n",","," ","o","r"," ","m","i","g","r","a","i","n","e","s","."," ","D","r","i","n","k"," ","w","a","t","e","r"," ","a","n","d"," ","r","e","s","t",".">>>>,
    <<<<"f","e","v","e","r">>, <<"F","e","v","e","r"," ","i","s"," ","o","f","t","e","n"," ","a"," ","s","i","g","n"," ","o","f"," ","i","n","f","e","c","t","i","o","n","."," ","M","o","n","i","t","o","r"," ","y","o","u","r"," ","t","e","m","p","e","r","a","t","u","r","e"," ","a","n","d"," ","s","t","a","y"," ","h","y","d","r","a","t","e","d",".">>>>,
    <<<<"c","o","u","g","h">>, <<"A"," ","c","o","u","g","h"," ","c","a","n"," ","b","e"," ","d","u","e"," ","t","o"," ","a"," ","c","o","l","d",","," ","f","l","u",","," ","o","r"," ","a","l","l","e","r","g","i","e","s","."," ","R","e","s","t"," ","a","n","d"," ","d","r","i","n","k"," ","w","a","r","m"," ","f","l","u","i","d","s",".">>>>,
    <<<<"c","h","e","s","t"," ","p","a","i","n">>, <<"C","h","e","s","t"," ","p","a","i","n"," ","c","a","n"," ","i","n","d","i","c","a","t","e"," ","h","e","a","r","t"," ","i","s","s","u","e","s","."," ","S","e","e","k"," ","m","e","d","i","c","a","l"," ","a","t","t","e","n","t","i","o","n"," ","i","m","m","e","d","i","a","t","e","l","y",".">>>>,
    <<<<"f","a","t","i","g","u","e">>, <<"F","a","t","i","g","u","e"," ","c","a","n"," ","r","e","s","u","l","t"," ","f","r","o","m"," ","l","a","c","k"," ","o","f"," ","s","l","e","e","p",","," ","s","t","r","e","s","s",","," ","o","r"," ","u","n","d","e","r","l","y","i","n","g"," ","h","e","a","l","t","h"," ","c","o","n","d","i","t","i","o","n","s",".">>>>,
    <<<<"a","b","d","o","m","i","n","a","l"," ","p","a","i","n">>, <<"A","b","d","o","m","i","n","a","l"," ","p","a","i","n"," ","c","a","n"," ","b","e"," ","c","a","u","s","e","d"," ","b","y"," ","i","n","d","i","g","e","s","t","i","o","n",","," ","g","a","s",","," ","o","r"," ","m","o","r","e"," ","s","e","r","i","o","u","s"," ","c","o","n","d","i","t","i","o","n","s",".">>>> >>

GenericKnowledge ==
    <<"I"," ","r","e","c","o","m","m","e","n","d"," ","c","o","n","s","u","l","t","i","n","g"," ","a"," ","h","e","a","l","t","h","c","a","r","e"," ","p","r","o","f","e","s","s","i","o","n","a","l"," ","f","o","r"," ","m","o","r","e"," ","d","e","t","a","i","l","e","d"," ","i","n","f","o","r","m","a","t","i","o","n",".">>

\* the for loop of fetch_medical_knowledge from the i-th item on
RECURSIVE knowledge_scan(_, _)
knowledge_scan(query, i) ==
    IF i > Len(medical_knowledge) THEN GenericKnowledge
    ELSE IF Contains(medical_knowledge[i][1], lower(query))
    THEN <<"M","e","d","i","c","a","l"," ","I","n","f","o","r","m","a","t","i","o","n",":"," ">> \o medical_knowledge[i][2]
    ELSE knowledge_scan(query, i + 1)

fetch_medical_knowledge(query) == knowledge_scan(query, 1)

----------------------------------------------------------------------------
(* brain_of_the_doctor: vision-language adapter *)

\* parameters of def analyze_image_with_query
analyze_image_with_query_params == {"query", "encoded_image", "model"}

\* the messages list built inside the try block
vision_messages(query, encoded_image) ==
    << [role |-> "user",
        content |-> << [type |-> "text", text |-> query],
                       [type |-> "image_url",
                        url |-> <<"d","a","t","a",":","i","m","a","g","e","/","j","p","e","g",";","b","a","s","e","6","4",",">> \o Format(encoded_image)] >>] >>

\* analyze_image_with_query(query, encoded_image, model); remote is what
\* client.chat.completions.create does: it answers, answers without choices, or raises
analyze_image_with_query(query, encoded_image, model, remote) ==
    [messages |-> vision_messages(query, encoded_image),
     model |-> model,
     value |-> CASE remote.kind = "ok" -> strip(remote.content)
                 [] remote.kind = "no_choices" -> <<"E","r","r","o","r",":"," ","N","o"," ","v","a","l","i","d"," ","r","e","s","p","o","n","s","e"," ","f","r","o","m"," ","t","h","e"," ","m","o","d","e","l",".">>
                 [] OTHER -> <<"E","r","r","o","r"," ","d","u","r","i","n","g"," ","i","m","a","g","e"," ","a","n","a","l","y","s","i","s",":"," ">> \o remote.content]

----------------------------------------------------------------------------
(* voice_of_the_patient: speech-to-text adapter and emotion detection *)

\* transcribe_with_groq(stt_model, audio_filepath, GROQ_API_KEY, language)
transcribe_with_groq(stt_model, audio_filepath, GROQ_API_KEY, language, fs, remote) ==
    IF audio_filepath \notin DOMAIN fs THEN <<"E","r","r","o","r",":"," ","A","u","d","i","o"," ","f","i","l","e"," ","n","o","t"," ","f","o","u","n","d",".">>
    ELSE CASE remote.kind = "ok" -> remote.content
           [] remote.kind = "none" -> <<"E","r","r","o","r",":"," ","N","o"," ","t","r","a","n","s","c","r","i","p","t","i","o","n"," ","r","e","s","u","l","t",".">>
           [] OTHER -> <<"E","r","r","o","r",":"," ","F","a","i","l","e","d"," ","t","o"," ","t","r","a","n","s","c","r","i","b","e"," ","a","u","d","i","o",".">>

\* detect_emotion(audio_filepath); remote.kind = "no_key" when EMOTION_API_KEY is unset
detect_emotion(audio_filepath, remote) ==
    IF remote.kind = "ok" THEN remote.content ELSE <<"n","e","u","t","r","a","l">>

----------------------------------------------------------------------------
(* voice_of_the_doctor: synthesis and translation *)

\* parameters of def text_to_speech_with_elevenlabs
text_to_speech_with_elevenlabs_params == {"input_text", "output_filepath"}

\* text_to_speech_with_elevenlabs(input_text, output_filepath); now is int(time.time())
text_to_speech_with_elevenlabs(input_text, output_filepath, now, remote) ==
    IF remote.kind = "ok" THEN output_filepath \o <<"_">> \o now \o <<".","m","p","3">> ELSE None

\* translate_text(text, target_lang): the backend's translation, or its failure
translate_text(text, target_lang, remote) ==
    IF remote.kind = "ok" THEN Returned(remote.content) ELSE Raised("TranslationError")

----------------------------------------------------------------------------
(* gradio_app: the orchestrator *)

\* first sentence of the persona prompt; the rest of the literal is not modelled
system_prompt == <<"Y","o","u"," ","h","a","v","e"," ","t","o"," ","a","c","t"," ","a","s"," ","a"," ","p","r","o","f","e","s","s","i","o","n","a","l"," ","d","o","c","t","o","r",".">>

VisionModel == "llama-3.2-11b-vision-preview"

Pending == [kind |-> "pending", exc |-> "", value |-> None]

\* a no-input triple whose text fields are left empty
NoInputTripleBlank == <<<< >>, << >>, None>>

NoInputTriple == <<<<"N","o"," ","i","n","p","u","t"," ","p","r","o","v","i","d","e","d">>, <<"N","o"," ","d","o","c","t","o","r"," ","r","e","s","p","o","n","s","e">>, None>>
MissingKeyTriple == <<<<"E","r","r","o","r",":"," ","M","i","s","s","i","n","g"," ","G","R","O","Q"," ","A","P","I"," ","K","e","y">>, <<"N","o"," ","d","o","c","t","o","r"," ","r","e","s","p","o","n","s","e">>, None>>

\* one thing process_inputs did: the operation, the line of gradio_app.py, the argument
Event(op, line, arg) == [op |-> op, line |-> line, arg |-> arg]

Running(f) == f.outcome.kind = "pending"

\* a list.append that keeps only the newest turn
memory_append_latest(memory, turn) == <<turn>>

\* conversation_memory.append(turn)
memory_append(memory, turn) == Append(memory, turn)

\* state of one process_inputs call: the global list, the locals, the events so far
Frame(memory) ==
    [memory |-> memory, trace |-> << >>, outcome |-> Pending,
     speech_to_text_output |-> Unbound, emotion |-> Unbound, user_input |-> Unbound,
     encoded_image |-> Unbound, image_analysis |-> Unbound,
     symptom_analysis |-> Unbound, medical_info |-> Unbound,
     ai_response |-> Unbound, voice_of_doctor |-> Unbound]

\* a validation that compares the text as typed, without strip()
validate_unstripped(f, req) ==
    IF req.audio_filepath = None /\ req.image_filepath = None
       /\ req.text_input = << >>
    THEN [f EXCEPT !.outcome = Returned(NoInputTriple)]
    ELSE f

\* "Ensure at least one input is provided"
validate(f, req) ==
    IF req.audio_filepath = None /\ req.image_filepath = None
       /\ strip(req.text_input) = << >>
    THEN [f EXCEPT !.outcome = Returned(NoInputTriple)]
    ELSE f

\* a transcription step that calls the adapter before it looks at the key
transcribe_before_key_check(f, req, env) ==
    IF ~Running(f) THEN f
    ELSE IF Truthy(req.audio_filepath) /\ req.audio_filepath \in DOMAIN env.fs
    THEN LET g == [f EXCEPT
                     !.speech_to_text_output =
                         transcribe_with_groq("whisper-large-v3", req.audio_filepath,
                                              env.GROQ_API_KEY, "auto", env.fs, env.stt),
                     !.trace = @ \o <<Event("transcribe_with_groq", 42, req.audio_filepath)>>]
         IN  IF ~Truthy(env.GROQ_API_KEY)
             THEN [g EXCEPT !.outcome = Returned(MissingKeyTriple)]
             ELSE g
    ELSE [f EXCEPT !.speech_to_text_output = << >>, !.emotion = <<"n","e","u","t","r","a","l">>]

\* "Transcribe audio if provided"
transcribe(f, req, env) ==
    IF ~Running(f) THEN f
    ELSE IF Truthy(req.audio_filepath) /\ req.audio_filepath \in DOMAIN env.fs
    THEN IF ~Truthy(env.GROQ_API_KEY)
         THEN [f EXCEPT !.outcome = Returned(MissingKeyTriple)]
         ELSE [f EXCEPT
                 !.speech_to_text_output =
                     transcribe_with_groq("whisper-large-v3", req.audio_filepath,
                                          env.GROQ_API_KEY, "auto", env.fs, env.stt),
                 !.emotion = detect_emotion(req.audio_filepath, env.emo),
                 !.trace = @ \o <<Event("transcribe_with_groq", 42, req.audio_filepath),
                                  Event("detect_emotion", 47, req.audio_filepath)>>]
    ELSE [f EXCEPT !.speech_to_text_output = << >>, !.emotion = <<"n","e","u","t","r","a","l">>]

\* "Combine text inputs" and "Add user input to conversation memory"
resolve_and_append(f, req) ==
    IF ~Running(f) THEN f
    ELSE LET user_input == IF Truthy(req.text_input) THEN req.text_input
                           ELSE f.speech_to_text_output
             turn == [role |-> "user", content |-> user_input]
         IN  [f EXCEPT !.user_input = user_input,
                       !.memory = memory_append(@, turn),
                       !.trace = @ \o <<Event("append", 56, turn)>>]

\* "Handle image analysis if provided"
analyze_image(f, req, env) ==
    IF ~Running(f) THEN f
    ELSE IF Truthy(req.image_filepath) /\ req.image_filepath \in DOMAIN env.fs
    THEN LET enc == encode_image(req.image_filepath, env.fs)
             call1 == analyze_image_with_query(system_prompt, enc.value, VisionModel,
                                               env.vlm1)
         IN  IF enc.kind = "raise"
             THEN [f EXCEPT !.outcome = enc,
                            !.trace = @ \o <<Event("encode_image", 60, req.image_filepath)>>]
             ELSE [f EXCEPT !.encoded_image = enc.value,
                            !.image_analysis = call1.value,
                            !.trace = @ \o <<Event("encode_image", 60, req.image_filepath),
                                             Event("analyze_image_with_query", 61,
                                                   call1.messages)>>]
    ELSE [f EXCEPT !.image_analysis = << >>]

\* "Symptom checker and triage"
check_symptoms(f) ==
    IF ~Running(f) THEN f
    ELSE LET symptom_analysis == symptom_checker(f.user_input)
             turn == [role |-> "system", content |-> symptom_analysis]
         IN  IF Truthy(symptom_analysis)
             THEN [f EXCEPT !.symptom_analysis = symptom_analysis,
                            !.memory = memory_append(@, turn),
                            !.trace = @ \o <<Event("symptom_checker", 67, f.user_input),
                                             Event("append", 69, turn)>>]
             ELSE [f EXCEPT !.symptom_analysis = symptom_analysis,
                            !.trace = @ \o <<Event("symptom_checker", 67, f.user_input)>>]

\* a fact step that appends a turn only when a keyword of the table matched
fetch_knowledge_matches_only(f) ==
    IF ~Running(f) THEN f
    ELSE LET medical_info == fetch_medical_knowledge(f.user_input)
             turn == [role |-> "system", content |-> medical_info]
         IN  IF medical_info /= GenericKnowledge
             THEN [f EXCEPT !.medical_info = medical_info,
                            !.memory = memory_append(@, turn),
                            !.trace = @ \o <<Event("fetch_medical_knowledge", 72, f.user_input),
                                             Event("append", 74, turn)>>]
             ELSE [f EXCEPT !.medical_info = medical_info,
                            !.trace = @ \o <<Event("fetch_medical_knowledge", 72, f.user_input)>>]

\* "Fetch medical knowledge (RAG)"
fetch_knowledge(f) ==
    IF ~Running(f) THEN f
    ELSE LET medical_info == fetch_medical_knowledge(f.user_input)
             turn == [role |-> "system", content |-> medical_info]
         IN  IF Truthy(medical_info)
             THEN [f EXCEPT !.medical_info = medical_info,
                            !.memory = memory_append(@, turn),
                            !.trace = @ \o <<Event("fetch_medical_knowledge", 72, f.user_input),
                                             Event("append", 74, turn)>>]
             ELSE [f EXCEPT !.medical_info = medical_info,
                            !.trace = @ \o <<Event("fetch_medical_knowledge", 72, f.user_input)>>]

\* keyword arguments of the call that composes the final response
compose_kwargs == {"query", "encoded_image", "model", "memory"}

\* "Generate AI response with context" and "Add AI response to conversation memory"
compose(f, req, env) ==
    IF ~Running(f) THEN f
    ELSE IF Truthy(req.image_filepath) /\ f.encoded_image = Unbound
    THEN [f EXCEPT !.outcome = Raised("UnboundLocalError")]
    ELSE IF ~(compose_kwargs \subseteq analyze_image_with_query_params)
    THEN [f EXCEPT !.outcome = Raised("TypeError")]
    ELSE LET call2 == analyze_image_with_query(
                          system_prompt \o <<" ">> \o f.user_input,
                          IF Truthy(req.image_filepath) THEN f.encoded_image ELSE None,
                          VisionModel, env.vlm2)
             turn == [role |-> "assistant", content |-> call2.value]
         IN  [f EXCEPT !.ai_response = call2.value,
                       !.memory = memory_append(@, turn),
                       !.trace = @ \o <<Event("analyze_image_with_query", 77, call2.messages),
                                        Event("append", 83, turn)>>]

\* "Translate response if needed"
translate(f, req, env) ==
    IF ~Running(f) THEN f
    ELSE IF req.language_preference /= <<"e","n">>
    THEN LET t == translate_text(f.ai_response, req.language_preference, env.tr)
         IN  IF t.kind = "raise"
             THEN [f EXCEPT !.outcome = t,
                            !.trace = @ \o <<Event("translate_text", 87, f.ai_response)>>]
             ELSE [f EXCEPT !.ai_response = t.value,
                            !.trace = @ \o <<Event("translate_text", 87, f.ai_response)>>]
    ELSE f

\* keyword arguments of the synthesis call
synthesize_kwargs == {"input_text", "output_filepath", "language"}

\* "Convert AI response to speech"
synthesize(f, req, env) ==
    IF ~Running(f) THEN f
    ELSE IF ~(synthesize_kwargs \subseteq text_to_speech_with_elevenlabs_params)
    THEN [f EXCEPT !.voice_of_doctor = None,
                   !.trace = @ \o <<Event("except", 93, <<"T","y","p","e","E","r","r","o","r">>)>>]
    ELSE [f EXCEPT
            !.voice_of_doctor =
                text_to_speech_with_elevenlabs(f.ai_response, <<"f","i","n","a","l",".","m","p","3">>, env.now,
                                               env.tts),
            !.trace = @ \o <<Event("text_to_speech_with_elevenlabs", 91, f.ai_response)>>]

\* return user_input, ai_response, voice_of_doctor
finish(f) ==
    IF ~Running(f) THEN f
    ELSE [f EXCEPT !.outcome = Returned(<<f.user_input, f.ai_response, f.voice_of_doctor>>)]

\* process_inputs(audio_filepath, image_filepath, text_input, language_preference)
\* started with conversation_memory = memory, in environment env
process_inputs(req, env, memory) ==
    finish(synthesize(translate(compose(fetch_knowledge(check_symptoms(
        analyze_image(resolve_and_append(transcribe(validate(Frame(memory), req),
                                                    req, env), req), req, env))),
        req, env), req, env), req, env))

----------------------------------------------------------------------------
(* Inputs and environment of a request *)

AudioPath == <<"v","o","i","c","e",".","m","p","3">>
ImagePath == <<"r","a","s","h",".","j","p","g">>

\* bytes of the files that may exist
FileBytes(path) == IF path = ImagePath THEN <<255, 216, 255, 224>> ELSE <<73, 68, 51>>

\* the file systems a request can meet, as far as the paths it names go: each of
\* them exists or not
FileSystems(req) ==
    {[p \in S |-> FileBytes(p)] :
        S \in SUBSET ({req.audio_filepath, req.image_filepath} \ {None})}

\* os.environ.get("GROQ_API_KEY")
GroqKeys == {None, << >>, <<"g","s","k">>}

Texts == {<< >>, <<" "," ">>, <<"I"," ","h","a","v","e"," ","a"," ","H","e","a","d","a","c","h","e"," ","a","n","d"," ","f","e","v","e","r">>, <<"m","y"," ","k","n","e","e"," ","h","u","r","t","s">>}

Languages == {<<"e","n">>, <<"h","i">>}

Requests ==
    [audio_filepath : {None, AudioPath}, image_filepath : {None, ImagePath},
     text_input : Texts, language_preference : Languages]

\* outcome of a remote call that is not made
Idle == [kind |-> "idle", content |-> << >>]

SttOutcomes ==
    {[kind |-> "ok", content |-> <<"d","r","y"," ","c","o","u","g","h">>], [kind |-> "ok", content |-> << >>],
     [kind |-> "raise", content |-> << >>]}

EmotionOutcomes == {[kind |-> "no_key", content |-> << >>], [kind |-> "ok", content |-> <<"s","a","d">>]}

VlmOutcomes ==
    {[kind |-> "ok", content |-> <<" ","W","i","t","h"," ","w","h","a","t"," ","I"," ","s","e","e",","," ","I"," ","t","h","i","n","k"," ","y","o","u"," ","h","a","v","e"," ","a"," ","r","a","s","h","."," ">>],
     [kind |-> "no_choices", content |-> << >>],
     [kind |-> "raise", content |-> <<"C","o","n","n","e","c","t","i","o","n"," ","e","r","r","o","r",".">>]}

TranslateOutcomes ==
    {[kind |-> "ok", content |-> <<"t","r","a","n","s","l","a","t","e","d">>], [kind |-> "raise", content |-> << >>]}

TtsOutcomes ==
    {[kind |-> "ok", content |-> << >>], [kind |-> "no_stream", content |-> << >>],
     [kind |-> "raise", content |-> << >>]}

Now == <<"1","7","0","0","0","0","0","0","0","0">>

\* outcome of a remote call that answers
Answer == [kind |-> "ok", content |-> << >>]

\* lines of gradio_app.py whose call a request makes when every remote call answers
CalledLines(req, fs, key) ==
    LET env == [fs |-> fs, GROQ_API_KEY |-> key, stt |-> Answer, emo |-> Answer,
                vlm1 |-> Answer, vlm2 |-> Answer, tr |-> Answer, tts |-> Answer,
                now |-> Now]
        t == process_inputs(req, env, << >>).trace
    IN  {t[i].line : i \in DOMAIN t}

\* the outcomes to consider for the call at a line: all of them when the request
\* can make the call, none otherwise
Choices(line, outcomes, lines) == IF line \in lines THEN outcomes ELSE {Idle}

NoRequest ==
    [audio_filepath |-> None, image_filepath |-> None, text_input |-> << >>,
     language_preference |-> <<"e","n">>, fs |-> << >>, GROQ_API_KEY |-> None]

NoCall == [fn |-> "none", args |-> << >>]

Init ==
    /\ conversation_memory = << >>
    /\ request = NoRequest
    /\ outcome = Pending
    /\ trace = << >>
    /\ call = NoCall
    /\ result = None

\* one call of process_inputs by the interface, start to end
Run(req, env) ==
    LET f == process_inputs(req, env, conversation_memory)
    IN  /\ conversation_memory' = f.memory
        /\ request' = [audio_filepath |-> req.audio_filepath,
                       image_filepath |-> req.image_filepath,
                       text_input |-> req.text_input,
                       language_preference |-> req.language_preference,
                       fs |-> env.fs, GROQ_API_KEY |-> env.GROQ_API_KEY]
        /\ outcome' = f.outcome
        /\ trace' = f.trace
        /\ UNCHANGED <<call, result>>

ProcessInputs ==
    /\ Len(conversation_memory) < MaxTurns
    /\ \E req \in Requests, key \in GroqKeys :
         \E fs \in FileSystems(req) :
         LET lines == CalledLines(req, fs, key)
         IN  \E stt \in Choices(42, SttOutcomes, lines),
                emo \in Choices(47, EmotionOutcomes, lines),
                vlm1 \in Choices(61, VlmOutcomes, lines),
                vlm2 \in Choices(77, VlmOutcomes, lines),
                tr \in Choices(87, TranslateOutcomes, lines),
                tts \in Choices(91, TtsOutcomes, lines) :
               Run(req, [fs |-> fs, GROQ_API_KEY |-> key, stt |-> stt, emo |-> emo,
                         vlm1 |-> vlm1, vlm2 |-> vlm2, tr |-> tr, tts |-> tts,
                         now |-> Now])

Next == ProcessInputs

Spec == Init /\ [][Next]_vars

----------------------------------------------------------------------------
(* Direct calls of the library functions *)

Fragments ==
    {<<"H","e","a","d","a","c","h","e">>, <<"f","e","v","e","r">>, <<"C","O","U","G","H">>, <<"c","h","e","s","t"," ">>, <<"p","a","i","n">>, <<"a","c","h","e">>, <<"h","e","a","d">>,
     <<" ","a","n","d"," ">>, <<"F","A","T","I","G","U","E">>, <<"a","b","d","o","m","i","n","a","l"," ","p","a","i","n">>, <<"m","y"," ","k","n","e","e"," ","h","u","r","t","s">>}

\* texts made of at most n fragments
RECURSIVE TextsOf(_)
TextsOf(n) ==
    IF n = 0 THEN {<< >>}
    ELSE LET shorter == TextsOf(n - 1)
         IN  shorter \cup {s \o frag : s \in shorter, frag \in Fragments}

LookupTexts == TextsOf(MaxParts)

EncodedImages == {None, b64encode(FileBytes(ImagePath))}

CallSymptomChecker ==
    /\ \E t \in LookupTexts :
         /\ call' = [fn |-> "symptom_checker", args |-> <<t>>]
         /\ result' = symptom_checker(t)
    /\ UNCHANGED <<conversation_memory, request, outcome, trace>>

CallFetchMedicalKnowledge ==
    /\ \E t \in LookupTexts :
         /\ call' = [fn |-> "fetch_medical_knowledge", args |-> <<t>>]
         /\ result' = fetch_medical_knowledge(t)
    /\ UNCHANGED <<conversation_memory, request, outcome, trace>>

CallAnalyzeImageWithQuery ==
    /\ \E t \in Texts, enc \in EncodedImages, remote \in VlmOutcomes :
         /\ call' = [fn |-> "analyze_image_with_query", args |-> <<t, enc>>]
         /\ result' = analyze_image_with_query(t, enc, VisionModel, remote)
    /\ UNCHANGED <<conversation_memory, request, outcome, trace>>

LibNext == CallSymptomChecker \/ CallFetchMedicalKnowledge \/ CallAnalyzeImageWithQuery

LibSpec == Init /\ [][LibNext]_vars

----------------------------------------------------------------------------
(* Properties of process_inputs *)

Roles == {"user", "system", "assistant"}

\* a process_inputs call has ended
Done == outcome.kind /= "pending"

\* the call ended at one of the two early returns, before the user turn
ShortCircuited == outcome.kind = "return" /\ \A i \in DOMAIN trace : trace[i].line /= 56

AudioExists == request.audio_filepath /= None /\ request.audio_filepath \in DOMAIN request.fs
ImageExists == request.image_filepath /= None /\ request.image_filepath \in DOMAIN request.fs

LinesOf(t) == [i \in DOMAIN t |-> t[i].line]

CountLine(t, line) == Cardinality({i \in DOMAIN t : t[i].line = line})

HasImagePart(messages) ==
    \E m \in DOMAIN messages :
        \E c \in DOMAIN messages[m].content : messages[m].content[c].type = "image_url"

\* C1: a request without audio path, without image path and with blank text returns
\* the fixed triple ("No input provided", "No doctor response", None), and no adapter
\* is called for it.
NoInputRejected ==
    (Done /\ request.audio_filepath = None /\ request.image_filepath = None
          /\ strip(request.text_input) = << >>)
    => /\ outcome.kind = "return"
       /\ outcome.value = <<<<"N","o"," ","i","n","p","u","t"," ","p","r","o","v","i","d","e","d">>, <<"N","o"," ","d","o","c","t","o","r"," ","r","e","s","p","o","n","s","e">>, None>>
       /\ trace = << >>

NoInputWitness ==
    /\ Done
    /\ request.audio_filepath = None /\ request.image_filepath = None
    /\ request.text_input = <<" "," ">>
    /\ outcome.kind = "return"
    /\ Len(conversation_memory) > 0

\* C2: every process_inputs call ends by returning three values; none ends by raising.
AlwaysReturnsTriple == Done => (outcome.kind = "return" /\ Len(outcome.value) = 3)

\* C3: when the audio file exists and the speech-to-text credential is missing, the
\* call returns ("Error: Missing GROQ API Key", "No doctor response", None) and does
\* nothing else: no adapter call and no change of the session memory.
MissingKeyShortCircuits ==
    [][(Done' /\ AudioExists' /\ ~Truthy(request'.GROQ_API_KEY))
       => /\ outcome'.kind = "return"
          /\ outcome'.value = <<<<"E","r","r","o","r",":"," ","M","i","s","s","i","n","g"," ","G","R","O","Q"," ","A","P","I"," ","K","e","y">>, <<"N","o"," ","d","o","c","t","o","r"," ","r","e","s","p","o","n","s","e">>, None>>
          /\ trace' = << >>
          /\ conversation_memory' = conversation_memory]_vars

MissingKeyWitness ==
    /\ Done /\ AudioExists /\ request.GROQ_API_KEY = None
    /\ request.image_filepath /= None /\ Truthy(request.text_input)
    /\ outcome.kind = "return"
    /\ Len(conversation_memory) > 0

\* C4: when the audio path names a file that does not exist, no transcription is made
\* and the transcript is empty: the call goes on with the free text when there is
\* some, and returns the no-input triple when text and image are absent too.
MissingAudioSkipped ==
    (Done /\ request.audio_filepath /= None /\ ~AudioExists)
    => /\ CountLine(trace, 42) = 0
       /\ IF request.image_filepath = None /\ strip(request.text_input) = << >>
          THEN outcome.kind = "return" /\ outcome.value = NoInputTriple /\ trace = << >>
          ELSE Truthy(request.text_input)
               => \E i \in DOMAIN trace :
                     /\ trace[i].line = 56
                     /\ trace[i].arg.content = request.text_input

\* C5: when the image path names a file that does not exist, the image is treated as
\* absent: no encoding and no preliminary analysis, and the call, unless it stops at
\* the credential check, goes through the compose step and returns its triple.
MissingImageNotFatal ==
    (Done /\ request.image_filepath /= None /\ ~ImageExists
          /\ ~(AudioExists /\ ~Truthy(request.GROQ_API_KEY)))
    => /\ CountLine(trace, 60) = 0 /\ CountLine(trace, 61) = 0
       /\ outcome.kind = "return"
       /\ CountLine(trace, 77) = 1

\* speech synthesis was tried and gave no audio
SynthesisFailed ==
    \/ CountLine(trace, 93) > 0
    \/ CountLine(trace, 91) > 0 /\ outcome.value[3] = None

\* C6 as stated: in every returned triple the audio path is None only if speech
\* synthesis failed, and both text fields are non-empty.
AudioNoneOnlyIfSynthesisFailed ==
    outcome.kind = "return"
    => /\ outcome.value[3] = None => SynthesisFailed
       /\ outcome.value[1] /= << >> /\ outcome.value[2] /= << >>

\* C6: in every returned triple the audio path is None only if speech synthesis
\* failed or the call stopped at validation or at the credential check, and both
\* text fields are non-empty.
AudioNoneOnlyIfFailedOrShortCircuited ==
    outcome.kind = "return"
    => /\ outcome.value[3] = None => (SynthesisFailed \/ ShortCircuited)
       /\ outcome.value[1] /= << >> /\ outcome.value[2] /= << >>

ReturnedTripleWitness ==
    /\ outcome.kind = "return" /\ outcome.value[3] = None
    /\ request.image_filepath /= None /\ request.text_input = << >>
    /\ Len(conversation_memory) > 0

\* the steps of a call that is not short-circuited, as lines of gradio_app.py, up to
\* the append of the assistant turn
StepsThroughCompose ==
    (IF AudioExists THEN <<42, 47>> ELSE << >>) \o <<56>>
    \o (IF ImageExists THEN <<60, 61>> ELSE << >>)
    \o <<67, 69, 72, 74, 77, 83>>

\* C7: a call that is not short-circuited transcribes (if the audio exists), appends
\* the user turn, analyzes the image (if it exists), looks up the follow-up and the
\* fact, composes, translates (only if the language is not "en"), synthesizes and
\* returns, in this order; the vision-language adapter is called twice when the image
\* exists and once when there is no image.
FixedStepOrder ==
    (Done /\ ~ShortCircuited)
    => /\ outcome.kind = "return"
       /\ \E synth \in {<<91>>, <<93>>} :
             LinesOf(trace) = StepsThroughCompose
                              \o (IF request.language_preference /= <<"e","n">> THEN <<87>>
                                  ELSE << >>)
                              \o synth
       /\ CountLine(trace, 61) + CountLine(trace, 77) = (IF ImageExists THEN 2 ELSE 1)

\* C8: the session memory only grows at its end, whatever way a call ends: the
\* memory before a step is a prefix of the memory after it, and every turn has one
\* of the three roles.
MemoryAppendOnly ==
    /\ [](\A i \in DOMAIN conversation_memory : conversation_memory[i].role \in Roles)
    /\ [][IsPrefix(conversation_memory, conversation_memory')]_vars

MemoryGrownTwiceWitness ==
    /\ Len(conversation_memory) = 6
    /\ outcome.kind = "raise"
    /\ conversation_memory[4].role = "user"

\* C9: symptom_checker(t) is "I see you mentioned k. q" for the first key k of the
\* follow-up table, in table order, that the lower-cased t contains, q being the
\* question of k; it is the generic prompt when t contains no key.
FollowUpFirstMatch ==
    call.fn = "symptom_checker"
    => LET lowered == lower(call.args[1])
           hits == {i \in DOMAIN symptom_mapping : Contains(symptom_mapping[i][1], lowered)}
       IN  IF hits = {}
           THEN result = <<"C","a","n"," ","y","o","u"," ","d","e","s","c","r","i","b","e"," ","y","o","u","r"," ","s","y","m","p","t","o","m","s"," ","i","n"," ","m","o","r","e"," ","d","e","t","a","i","l","?">>
           ELSE \E k \in hits :
                   /\ \A j \in hits : k <= j
                   /\ result = <<"I"," ","s","e","e"," ","y","o","u"," ","m","e","n","t","i","o","n","e","d"," ">> \o symptom_mapping[k][1]
                               \o <<"."," ">> \o symptom_mapping[k][2]

FollowUpTwoKeysWitness ==
    /\ call.fn = "symptom_checker"
    /\ call.args[1] = <<"f","e","v","e","r","H","e","a","d","a","c","h","e">>
    /\ result = <<"I"," ","s","e","e"," ","y","o","u"," ","m","e","n","t","i","o","n","e","d"," ","h","e","a","d","a","c","h","e","."," ","D","o"," ","y","o","u"," ","h","a","v","e"," ","a","n","y"," ","o","t","h","e","r"," ","s","y","m","p","t","o","m","s"," ","l","i","k","e"," ","f","e","v","e","r"," ","o","r"," ","n","a","u","s","e","a","?">>

\* C10: the user message built by analyze_image_with_query has an image part only
\* if an encoded image was passed.
ImagePartOnlyWithImage ==
    call.fn = "analyze_image_with_query"
    => (HasImagePart(result.messages) => call.args[2] /= None)

\* C11: a request for a language other than "en" that is not short-circuited is
\* never aborted, whatever the translation backend does: it reaches the synthesis
\* step and returns its triple.
TranslationNeverAborts ==
    (Done /\ request.language_preference /= <<"e","n">> /\ ~ShortCircuited)
    => /\ outcome.kind = "return"
       /\ CountLine(trace, 91) + CountLine(trace, 93) > 0

\* the values the effective text of the last call can have: the typed text when
\* there is some, else the transcript, which is empty when no audio file exists
EffectiveTexts ==
    IF Truthy(request.text_input) THEN {request.text_input}
    ELSE IF ~AudioExists THEN {<< >>}
    ELSE {transcribe_with_groq("whisper-large-v3", request.audio_filepath,
                               request.GROQ_API_KEY, "auto", request.fs, o) :
             o \in SttOutcomes}

\* C12: a call that passes validation and the credential check appends, before it
\* composes, exactly three turns, in this order: the user turn with the effective
\* text, a system turn with the follow-up and a system turn with the fact, both
\* non-empty for every effective text; the three turns stay when the call then
\* aborts, and only an assistant turn can follow them.
ThreeTurnsBeforeCompose ==
    [][(Done' /\ ~ShortCircuited')
       => LET old == Len(conversation_memory)
              new == conversation_memory'
          IN  /\ IsPrefix(conversation_memory, new)
              /\ Len(new) \in {old + 3, old + 4}
              /\ new[old + 1].role = "user"
              /\ new[old + 1].content \in EffectiveTexts'
              /\ new[old + 2].role = "system"
              /\ new[old + 2].content = symptom_checker(new[old + 1].content)
              /\ new[old + 2].content /= << >>
              /\ new[old + 3].role = "system"
              /\ new[old + 3].content = fetch_medical_knowledge(new[old + 1].content)
              /\ new[old + 3].content /= << >>
              /\ Len(new) = old + 4 => new[old + 4].role = "assistant"
              /\ outcome'.kind = "raise" => Len(new) = old + 3]_vars

ThreeTurnsEmptyTextWitness ==
    /\ Done /\ outcome.kind = "raise"
    /\ request.text_input = << >> /\ request.audio_filepath = None
    /\ Len(conversation_memory) = 6
    /\ conversation_memory[4] = [role |-> "user", content |-> << >>]
    /\ conversation_memory[5].role = "system" /\ conversation_memory[6].role = "system"

====
